---- MODULE Spec2Model ----
(***************************************************************************)
(* The etcd registry adapter of registrator (etcd/etcd.go): Factory.New    *)
(* builds a transport, probes GET /version, classifies the store           *)
(* generation and binds exactly one client; Ping, Register, Deregister,    *)
(* Refresh and Services then dispatch on the bound client.                 *)
(*                                                                         *)
(* Go strings whose contents the code inspects or concatenates (the        *)
(* version body, the key path, names, IDs, addresses) are sequences of     *)
(* one-character strings.  Opaque strings (file names, log texts, error    *)
(* values) are TLA+ strings.                                               *)
(***************************************************************************)
EXTENDS Integers, Sequences, FiniteSets, TLC

VARIABLES
    flags,        \* the command-line flags caFile, certFile, keyFile
    uri,          \* the *url.URL handed to Factory.New: Host and Path
    versionBody,  \* what the store's /version endpoint serves
    records,      \* the service records the host framework may pass in
    fpc,          \* position of Factory.New
    transport,    \* the transport New holds
    urls,         \* the endpoint list New builds
    body,         \* the bytes New read from the /version response
    probes,       \* the GET requests New has issued, in order
    flog,         \* the log lines New has written, in order
    adapter,      \* the EtcdAdapter New returned: client, client2, path
    store,        \* the key space of the etcd cluster
    frames        \* one call frame per goroutine of the host framework

vars == <<flags, uri, versionBody, records, fpc, transport, urls, body,
          probes, flog, adapter, store, frames>>

NIL == "nil"

-----------------------------------------------------------------------------
(* Bounds and input domains.                                               *)

MaxBodyLen == 5

BodyAlphabet == {"0", ".", "4", "2"}

SeqsUpTo(S, n) == UNION {[1..k -> S] : k \in 0..n}

Bodies == SeqsUpTo(BodyAlphabet, MaxBodyLen)

\* file names the three flags may carry: unset, a well-formed PEM file, a
\* readable file holding no PEM block, a path that cannot be read
GoodFile    == "good.pem"
GarbageFile == "garbage.pem"
MissingFile == "missing.pem"
FileNames   == {"", GoodFile, GarbageFile, MissingFile}

AllFlags == [caFile : FileNames, certFile : FileNames, keyFile : FileNames]

Uris == [Host : {"", "etcd:4001"},
         Path : {<<>>, <<"/", "r">>}]

-----------------------------------------------------------------------------
(* createTransport                                                         *)

ReadFileFails(name) == name = MissingFile

AppendCertsFromPEM(name) == name = GoodFile

LoadX509KeyPairFails(cert, key) == cert # GoodFile \/ key # GoodFile

NoTransport == [RootCAs |-> NIL, Certificates |-> NIL, configured |-> FALSE]

\* a mutation of createTransport: the error of reading the CA bundle is dropped
createTransportIgnoringCA(fl) ==
    IF fl.certFile # "" /\ fl.keyFile # ""
          /\ LoadX509KeyPairFails(fl.certFile, fl.keyFile)
    THEN [transport |-> NoTransport, err |-> "tls: failed to load key pair"]
    ELSE [transport |->
             [RootCAs |-> NIL,
              Certificates |-> IF fl.certFile # "" /\ fl.keyFile # ""
                               THEN fl.certFile ELSE NIL,
              configured |-> TRUE],
          err |-> NIL]

createTransport(fl) ==
    IF fl.caFile # "" /\ ReadFileFails(fl.caFile)
    THEN [transport |-> NoTransport, err |-> "open: no such file"]
    ELSE IF fl.certFile # "" /\ fl.keyFile # ""
            /\ LoadX509KeyPairFails(fl.certFile, fl.keyFile)
    THEN [transport |-> NoTransport, err |-> "tls: failed to load key pair"]
    ELSE [transport |->
             [RootCAs |-> IF fl.caFile # "" /\ AppendCertsFromPEM(fl.caFile)
                          THEN fl.caFile ELSE NIL,
              Certificates |-> IF fl.certFile # "" /\ fl.keyFile # ""
                               THEN fl.certFile ELSE NIL,
              configured |-> TRUE],
          err |-> NIL]

-----------------------------------------------------------------------------
(* The version signature: regexp.Match("0\\.4\\.*", body)                   *)

\* the compiled pattern: the literals 0 . 4, then the literal . starred
VersionPattern ==
    << [ch |-> "0", star |-> FALSE],
       [ch |-> ".", star |-> FALSE],
       [ch |-> "4", star |-> FALSE],
       [ch |-> ".", star |-> TRUE] >>

RECURSIVE MatchHere(_, _, _, _)
MatchHere(pat, k, s, i) ==
    IF k > Len(pat) THEN TRUE
    ELSE IF pat[k].star
    THEN \/ MatchHere(pat, k + 1, s, i)
         \/ (i <= Len(s) /\ s[i] = pat[k].ch /\ MatchHere(pat, k, s, i + 1))
    ELSE i <= Len(s) /\ s[i] = pat[k].ch /\ MatchHere(pat, k + 1, s, i + 1)

\* regexp.Match is unanchored: the pattern may match anywhere in s
RegexpMatch(pat, s) == \E i \in 1..(Len(s) + 1) : MatchHere(pat, 1, s, i)

LegacyClient  == "etcd.Client"
CurrentClient == "etcd2.Client"

NoAdapter == [client |-> NIL, client2 |-> NIL, path |-> <<>>]

\* mutations of the two return statements of New
NewBothAdapter(path) ==
    [client |-> LegacyClient, client2 |-> CurrentClient, path |-> path]

NewLegacyAdapter(path) ==
    [client |-> LegacyClient, client2 |-> NIL, path |-> path]

NewCurrentAdapter(path) ==
    [client |-> NIL, client2 |-> CurrentClient, path |-> path]

-----------------------------------------------------------------------------
(* Factory.New, in the three steps its two network calls divide it into.   *)

Scheme(fl) == IF fl.caFile # "" \/ fl.certFile # "" THEN "https://" ELSE "http://"

Endpoint(fl, u) ==
    [scheme |-> Scheme(fl),
     host   |-> IF u.Host # "" THEN u.Host ELSE "127.0.0.1:2379"]

FactoryUnchanged == UNCHANGED <<flags, uri, versionBody, records, store, frames>>

\* lines 34-54: the transport, then the endpoint list
NewTransport ==
    /\ fpc = "start"
    /\ LET r == createTransport(flags) IN
       IF r.err # NIL
       THEN /\ fpc' = "fatal"
            /\ flog' = Append(flog, "etcd: error creating transport")
            /\ UNCHANGED <<transport, urls>>
       ELSE /\ fpc' = "probe"
            /\ transport' = r.transport
            /\ urls' = <<Endpoint(flags, uri)>>
            /\ UNCHANGED flog
    /\ UNCHANGED <<body, probes, adapter>>
    /\ FactoryUnchanged

\* lines 55-61: c.Get(urls[0] + "/version") and the read of the body
NewProbe ==
    /\ fpc = "probe"
    /\ probes' = Append(probes, [url |-> urls[1], path |-> "/version"])
    /\ \E ok \in BOOLEAN :
          IF ok
          THEN /\ body' = versionBody
               /\ fpc' = "classify"
               /\ UNCHANGED flog
          ELSE /\ fpc' = "fatal"
               /\ flog' = Append(flog, "etcd: error retrieving version")
               /\ UNCHANGED body
    /\ UNCHANGED <<transport, urls, adapter>>
    /\ FactoryUnchanged

\* lines 63-79: the match, and the client it selects
NewBind ==
    /\ fpc = "classify"
    /\ IF RegexpMatch(VersionPattern, body)
       THEN /\ flog' = Append(flog, "etcd: using v0 client")
            /\ adapter' = NewLegacyAdapter(uri.Path)
            /\ fpc' = "returned"
       ELSE \E ok \in BOOLEAN :
               IF ok
               THEN /\ adapter' = NewCurrentAdapter(uri.Path)
                    /\ fpc' = "returned"
                    /\ UNCHANGED flog
               ELSE /\ fpc' = "fatal"
                    /\ flog' = Append(flog,
                                 "etcd: no valid etcd client could be created")
                    /\ UNCHANGED adapter
    /\ UNCHANGED <<transport, urls, body, probes>>
    /\ FactoryUnchanged

-----------------------------------------------------------------------------
(* Service records and the strings Register builds from them.              *)

Names == {<<"w">>, <<"w", "/">>}
IDs   == {<<"1">>, <<"/", "1">>}
IPs   == {<<"1", "0", ".", "5">>, <<":", ":", "1">>}
Ports == {8080}
TTLs  == {-1, 30}

AllRecords == [Name : Names, ID : IDs, IP : IPs, Port : Ports, TTL : TTLs]

BaseIP  == <<"1", "0", ".", "5">>
BaseTTL == {30}

\* the records of the runs: every name and ID with the base address and
\* TTL, and the base name and ID with every address and TTL
ServiceRecords ==
    {r \in AllRecords :
        \/ (r.IP = BaseIP /\ r.TTL \in BaseTTL)
        \/ (r.Name = <<"w">> /\ r.ID = <<"1">>)}

NoService == [Name |-> <<>>, ID |-> <<>>, IP |-> <<>>, Port |-> 0, TTL |-> 0]

\* a mutation of the key: the instance ID is left out
StoreKeyByName(prefix, name, id) == prefix \o <<"/">> \o name

\* r.path + "/" + service.Name + "/" + service.ID
StoreKey(prefix, name, id) == prefix \o <<"/">> \o name \o <<"/">> \o id

Digit(d) == <<"0", "1", "2", "3", "4", "5", "6", "7", "8", "9">>[d + 1]

RECURSIVE ItoaNat(_)
ItoaNat(n) == IF n < 10 THEN <<Digit(n)>>
              ELSE Append(ItoaNat(n \div 10), Digit(n % 10))

\* strconv.Itoa
Itoa(n) == IF n < 0 THEN <<"-">> \o ItoaNat(-n) ELSE ItoaNat(n)

HasChar(s, c) == \E i \in 1..Len(s) : s[i] = c

\* net.JoinHostPort: a host holding a colon is bracketed
JoinHostPort(host, port) ==
    IF HasChar(host, ":")
    THEN <<"[">> \o host \o <<"]", ":">> \o port
    ELSE host \o <<":">> \o port

\* A TTL as the client library receives it, denoting
\* wraps * 2^64 + secs seconds and nanos nanoseconds.
NoTTL == [wraps |-> 0, secs |-> 0, nanos |-> 0]

\* uint64(n) of a Go int n: a negative n wraps to 2^64 + n
Uint64Seconds(n) == [wraps |-> IF n < 0 THEN 1 ELSE 0, secs |-> n, nanos |-> 0]

\* time.Duration(n) * time.Second: n seconds, exact for every n of this
\* model (the product overflows int64 only beyond 9223372036 seconds)
DurationSeconds(n) == [wraps |-> 0, secs |-> n, nanos |-> 0]

-----------------------------------------------------------------------------
(* The requests the adapter hands to the bound client library.             *)

NoRequest == [via |-> NIL, call |-> NIL, key |-> <<>>, value |-> <<>>,
              ttl |-> NoTTL, recursive |-> FALSE]

\* every method branches on r.client != nil
Dispatch(a) == IF a.client # NIL THEN "legacy" ELSE "current"

VersionPath == <<"v", "e", "r", "s", "i", "o", "n">>
KeysRoot    == <<"/">>

PingRequest(a) ==
    IF Dispatch(a) = "legacy"
    THEN [NoRequest EXCEPT !.via = "legacy", !.call = "SendRequest GET",
                           !.key = VersionPath]
    ELSE [NoRequest EXCEPT !.via = "current", !.call = "KeysAPI.Get",
                           !.key = KeysRoot]

\* a mutation of the current-protocol write: the TTL is passed as a bare
\* time.Duration(service.TTL), that is in nanoseconds
CurrentSetNanos(path, addr, ttl) ==
    [via |-> "current", call |-> "Set", key |-> path, value |-> addr,
     ttl |-> [wraps |-> 0, secs |-> 0, nanos |-> ttl], recursive |-> FALSE]

CurrentSet(path, addr, ttl) ==
    [via |-> "current", call |-> "Set", key |-> path, value |-> addr,
     ttl |-> DurationSeconds(ttl), recursive |-> FALSE]

LegacySet(path, addr, ttl) ==
    [via |-> "legacy", call |-> "Set", key |-> path, value |-> addr,
     ttl |-> Uint64Seconds(ttl), recursive |-> FALSE]

RegisterRequest(a, svc) ==
    LET path == StoreKey(a.path, svc.Name, svc.ID)
        port == Itoa(svc.Port)
        addr == JoinHostPort(svc.IP, port)
    IN  IF Dispatch(a) = "legacy"
        THEN LegacySet(path, addr, svc.TTL)
        ELSE CurrentSet(path, addr, svc.TTL)

DeregisterRequest(a, svc) ==
    LET path == StoreKey(a.path, svc.Name, svc.ID)
    IN  IF Dispatch(a) = "legacy"
        THEN [NoRequest EXCEPT !.via = "legacy", !.call = "Delete",
                               !.key = path, !.recursive = FALSE]
        ELSE [NoRequest EXCEPT !.via = "current", !.call = "Delete",
                               !.key = path, !.recursive = FALSE]

-----------------------------------------------------------------------------
(* Log lines, and what each method returns and logs for a store outcome.   *)

LogLine(text, err) == [prefix |-> "etcd:", text |-> text, err |-> err]

SyncWarning == LogLine("sync cluster was unsuccessful", NIL)

StoreErrors == {"etcd cluster is unavailable", "Key not found"}
SyncErrors  == {"etcd: no endpoints available"}

\* a mutation of Ping: a failed read is reported as success
PingSwallow(err) == NIL

\* Ping: if err != nil { return err }; return nil
PingReturn(err) == IF err # NIL THEN err ELSE NIL

\* Ping writes no log line of its own
PingLog(err) == <<>>

\* a mutation of Register: the error is returned without a log line
RegisterLogNothing(err) == <<>>

RegisterLog(err) ==
    IF err # NIL THEN <<LogLine("failed to register service:", err)>> ELSE <<>>

DeregisterLog(err) ==
    IF err # NIL THEN <<LogLine("failed to deregister service:", err)>> ELSE <<>>

-----------------------------------------------------------------------------
(* Call frames.  A frame holds the method the caller invoked (op), the     *)
(* method whose body runs (fn), the record passed, the calls made on the   *)
(* client library so far (trace), and once done the result.                *)

IdleFrame ==
    [pc |-> "idle", op |-> NIL, fn |-> NIL, svc |-> NoService, trace |-> <<>>,
     sent |-> NoRequest, err |-> NIL, ret |-> NIL, list |-> <<>>,
     logs |-> <<>>]

Enter(op, fn, svc) ==
    [IdleFrame EXCEPT !.pc = "sync", !.op = op, !.fn = fn, !.svc = svc]

\* a mutation of Refresh: the record is only probed, not written again
RefreshAsPing(svc) == Enter("Refresh", "Ping", svc)

\* Refresh: return r.Register(service)
RefreshFrame(svc) == Enter("Refresh", "Register", svc)

\* a mutation of Services: the keys of the store are listed
ServicesListing(st) == [IdleFrame EXCEPT !.pc = "done", !.op = "Services",
                            !.fn = "Services",
                            !.list = IF DOMAIN st = {} THEN <<>>
                                     ELSE <<CHOOSE k \in DOMAIN st : TRUE>>]

\* Services: return []*bridge.Service{}, nil
ServicesFrame(st) == [IdleFrame EXCEPT !.pc = "done", !.op = "Services",
                          !.fn = "Services", !.list = <<>>, !.ret = NIL]

\* a mutation of syncEtcdCluster: an unsuccessful sync ends the call
AfterSyncAbort(result) == IF result THEN "store" ELSE "done"

\* syncEtcdCluster returns nothing: the caller goes on whatever the result
AfterSync(result) == "store"

Put(st, k, v) == [x \in DOMAIN st \cup {k} |-> IF x = k THEN v ELSE st[x]]

Remove(st, k) == [x \in DOMAIN st \ {k} |-> st[x]]

Ready(g) == /\ fpc = "returned"
            /\ frames[g].pc \in {"idle", "done"}

OpUnchanged == UNCHANGED <<flags, uri, versionBody, records, fpc, transport,
                           urls, body, probes, flog, adapter>>

Ping(g) ==
    /\ Ready(g)
    /\ frames' = [frames EXCEPT ![g] = Enter("Ping", "Ping", NoService)]
    /\ UNCHANGED store
    /\ OpUnchanged

Register(g) ==
    /\ Ready(g)
    /\ \E svc \in records :
          frames' = [frames EXCEPT ![g] = Enter("Register", "Register", svc)]
    /\ UNCHANGED store
    /\ OpUnchanged

Deregister(g) ==
    /\ Ready(g)
    /\ \E svc \in records :
          frames' = [frames EXCEPT ![g] = Enter("Deregister", "Deregister", svc)]
    /\ UNCHANGED store
    /\ OpUnchanged

Refresh(g) ==
    /\ Ready(g)
    /\ \E svc \in records :
          frames' = [frames EXCEPT ![g] = RefreshFrame(svc)]
    /\ UNCHANGED store
    /\ OpUnchanged

Services(g) ==
    /\ Ready(g)
    /\ frames' = [frames EXCEPT ![g] = ServicesFrame(store)]
    /\ UNCHANGED store
    /\ OpUnchanged

\* syncEtcdCluster: SyncCluster() reports a boolean, Sync(ctx) an error
syncEtcdCluster(g) ==
    /\ frames[g].pc = "sync"
    /\ \E syncErr \in {NIL} \cup SyncErrors :
          LET via    == Dispatch(adapter)
              result == syncErr = NIL
              f      == frames[g]
          IN  frames' = [frames EXCEPT ![g] =
                 [f EXCEPT !.pc = AfterSync(result),
                           !.trace = Append(f.trace,
                                            [ev |-> "sync", via |-> via]),
                           !.logs = IF result THEN f.logs
                                    ELSE Append(f.logs, SyncWarning)]]
    /\ UNCHANGED store
    /\ OpUnchanged

StoreCall(f, req, err, ret, logs) ==
    [f EXCEPT !.pc = "done",
              !.trace = Append(f.trace, [ev |-> "store", via |-> req.via]),
              !.sent = req, !.err = err, !.ret = ret,
              !.logs = f.logs \o logs]

\* lines 92-104 of Ping
PingRead(g) ==
    /\ frames[g].pc = "store"
    /\ frames[g].fn = "Ping"
    /\ \E err \in {NIL} \cup StoreErrors :
          frames' = [frames EXCEPT ![g] =
             StoreCall(frames[g], PingRequest(adapter), err,
                       PingReturn(err), PingLog(err))]
    /\ UNCHANGED store
    /\ OpUnchanged

\* lines 126-141 of Register
RegisterSet(g) ==
    /\ frames[g].pc = "store"
    /\ frames[g].fn = "Register"
    /\ LET req == RegisterRequest(adapter, frames[g].svc) IN
       \E err \in {NIL} \cup StoreErrors :
          /\ frames' = [frames EXCEPT ![g] =
                StoreCall(frames[g], req, err, err, RegisterLog(err))]
          /\ store' = IF err = NIL
                      THEN Put(store, req.key,
                               [value |-> req.value, ttl |-> req.ttl])
                      ELSE store
    /\ OpUnchanged

\* lines 147-160 of Deregister
DeregisterDelete(g) ==
    /\ frames[g].pc = "store"
    /\ frames[g].fn = "Deregister"
    /\ LET req == DeregisterRequest(adapter, frames[g].svc) IN
       \E err \in {NIL} \cup StoreErrors :
          /\ frames' = [frames EXCEPT ![g] =
                StoreCall(frames[g], req, err, err, DeregisterLog(err))]
          /\ store' = IF err = NIL THEN Remove(store, req.key) ELSE store
    /\ OpUnchanged

InitWith(flagSet, uriSet, bodySet, recordSets, goroutines) ==
    /\ flags \in flagSet
    /\ uri \in uriSet
    /\ versionBody \in bodySet
    /\ records \in recordSets
    /\ fpc = "start"
    /\ transport = NoTransport
    /\ urls = <<>>
    /\ body = <<>>
    /\ probes = <<>>
    /\ flog = <<>>
    /\ adapter = NoAdapter
    /\ store = [k \in {} |-> NIL]
    /\ frames = [g \in goroutines |-> IdleFrame]

\* construction alone, over every flag setting and every version body
InitNew == InitWith(AllFlags, Uris, Bodies, {{}}, {})

NextNew == NewTransport \/ NewProbe \/ NewBind

SpecNew == InitNew /\ [][NextNew]_vars

Goroutines == DOMAIN frames

Next ==
    \/ NewTransport
    \/ NewProbe
    \/ NewBind
    \/ \E g \in Goroutines : Ping(g)
    \/ \E g \in Goroutines : Register(g)
    \/ \E g \in Goroutines : Deregister(g)
    \/ \E g \in Goroutines : Refresh(g)
    \/ \E g \in Goroutines : Services(g)
    \/ \E g \in Goroutines : syncEtcdCluster(g)
    \/ \E g \in Goroutines : PingRead(g)
    \/ \E g \in Goroutines : RegisterSet(g)
    \/ \E g \in Goroutines : DeregisterDelete(g)

\* the two version bodies of the documented scenarios
ScenarioBodies == {<<"0", ".", "4", ".", "6">>, <<"2", ".", "3", ".", "7">>}

ScenarioFlags == {[caFile |-> "", certFile |-> "", keyFile |-> ""],
                  [caFile |-> GoodFile, certFile |-> GoodFile,
                   keyFile |-> GoodFile],
                  [caFile |-> MissingFile, certFile |-> "", keyFile |-> ""]}

ScenarioUris == [Host : {""}, Path : {<<>>, <<"/", "r">>}]

\* one caller at a time, every service record
Init == InitWith(ScenarioFlags, ScenarioUris, ScenarioBodies,
                 {ServiceRecords}, {"g1"})

Spec == Init /\ [][Next]_vars

\* two concurrent callers, two service records
ConcRecords == {r \in ServiceRecords :
                   r.Name = <<"w">> /\ r.IP = BaseIP /\ r.TTL \in BaseTTL}

InitConc == InitWith({[caFile |-> "", certFile |-> "", keyFile |-> ""]},
                     ScenarioUris, ScenarioBodies, {ConcRecords},
                     {"g1", "g2"})

SpecConc == InitConc /\ [][Next]_vars

-----------------------------------------------------------------------------
(* Vocabulary of the properties.                                           *)

Contains(s, sub) ==
    \E i \in 1..(Len(s) - Len(sub) + 1) : SubSeq(s, i, i + Len(sub) - 1) = sub

Returned == fpc = "returned"

Done(g) == frames[g].pc = "done"

StoreOps == {"Ping", "Register", "Deregister", "Refresh"}

\* the kinds of the client-library calls a frame has made, in order
Kinds(f) == [i \in 1..Len(f.trace) |-> f.trace[i].ev]

ExactlyOneClient(a) == (a.client # NIL) # (a.client2 # NIL)

NoSlash(s) == ~HasChar(s, "/")

SameInstance(r1, r2) == r1.Name = r2.Name /\ r1.ID = r2.ID

\* the flag settings under which the CA bundle cannot be read or the
\* certificate and key pair cannot be loaded
BadTLSMaterial(fl) ==
    \/ fl.caFile = MissingFile
    \/ (fl.certFile # "" /\ fl.keyFile # ""
        /\ (fl.certFile # GoodFile \/ fl.keyFile # GoodFile))

ExactSeconds(n) == [wraps |-> 0, secs |-> n, nanos |-> 0]

-----------------------------------------------------------------------------
\* C1: the adapter New returns is bound to the Legacy client exactly when
\* the /version body contains the substring "0.4." and to the Current
\* client for every other body.
C1_ClassifiesByDottedSignature ==
    Returned =>
       /\ (adapter.client # NIL) <=> Contains(body, <<"0", ".", "4", ".">>)
       /\ (adapter.client2 # NIL) <=> ~Contains(body, <<"0", ".", "4", ".">>)

\* C2: once New has returned, exactly one of client and client2 is set,
\* every call made on a client library went to the bound one, and no step
\* of any operation, in any interleaving, changes the binding or the path.
C2_BindingInv ==
    /\ ~Returned => adapter = NoAdapter
    /\ Returned =>
          /\ ExactlyOneClient(adapter)
          /\ adapter.path = uri.Path
          /\ \A g \in Goroutines :
                \A i \in 1..Len(frames[g].trace) :
                   frames[g].trace[i].via =
                      (IF adapter.client # NIL THEN "legacy" ELSE "current")

C2_AdapterBinding ==
    /\ []C2_BindingInv
    /\ [][Returned => adapter' = adapter]_vars

C2_Witness ==
    /\ Returned
    /\ adapter.client2 # NIL
    /\ frames["g1"].pc = "store" /\ frames["g1"].fn = "Register"
    /\ "g2" \in Goroutines
    /\ frames["g2"].pc = "done" /\ frames["g2"].fn = "Deregister"

\* C3 as stated: the key a Register or Deregister call writes or deletes is
\* the key of no record with a different (name, ID) pair.
C3_KeyCollisionFree ==
    \A g \in Goroutines :
       (Done(g) /\ frames[g].fn \in {"Register", "Deregister"}) =>
          \A r \in records :
             ~SameInstance(r, frames[g].svc) =>
                StoreKey(adapter.path, r.Name, r.ID) # frames[g].sent.key

\* C3 amended: the same, for two records whose names both hold no "/" or
\* whose IDs both hold no "/".
C3_KeyCollisionFreeNoSlash ==
    \A g \in Goroutines :
       (Done(g) /\ frames[g].fn \in {"Register", "Deregister"}) =>
          \A r \in records :
             (/\ ~SameInstance(r, frames[g].svc)
              /\ \/ (NoSlash(r.Name) /\ NoSlash(frames[g].svc.Name))
                 \/ (NoSlash(r.ID) /\ NoSlash(frames[g].svc.ID)))
             => StoreKey(adapter.path, r.Name, r.ID) # frames[g].sent.key

C3_Witness ==
    \E g \in Goroutines :
       /\ Done(g) /\ frames[g].fn = "Deregister" /\ frames[g].err = NIL
       /\ NoSlash(frames[g].svc.Name)
       /\ \E r \in records :
             /\ NoSlash(r.Name) /\ ~SameInstance(r, frames[g].svc)
             /\ StoreKey(adapter.path, r.Name, r.ID) \in DOMAIN store

\* C4 as stated: a store error of Ping, Register, Deregister or Refresh is
\* returned unchanged and a log line prefixed "etcd:" was written for it;
\* a store success returns nil.
C4_ErrorSurfacing ==
    \A g \in Goroutines :
       (Done(g) /\ frames[g].op \in StoreOps) =>
          LET f == frames[g] IN
          /\ f.ret = f.err
          /\ f.err # NIL =>
                \E i \in 1..Len(f.logs) :
                   f.logs[i].prefix = "etcd:" /\ f.logs[i].err = f.err

\* C4 amended: the error is returned unchanged by all four; Register,
\* Deregister and Refresh write the "etcd:" line for it, Ping writes none.
C4_ErrorSurfacingExceptPingLog ==
    \A g \in Goroutines :
       (Done(g) /\ frames[g].op \in StoreOps) =>
          LET f == frames[g] IN
          /\ f.ret = f.err
          /\ (f.err # NIL /\ f.op # "Ping") =>
                \E i \in 1..Len(f.logs) :
                   f.logs[i].prefix = "etcd:" /\ f.logs[i].err = f.err
          /\ f.op = "Ping" =>
                \A i \in 1..Len(f.logs) : f.logs[i] = SyncWarning

C4_Witness ==
    \E g \in Goroutines :
       /\ Done(g) /\ frames[g].op = "Refresh"
       /\ frames[g].err = "Key not found" /\ frames[g].ret = "Key not found"
       /\ frames[g].logs =
             <<LogLine("failed to register service:", "Key not found")>>

\* C5: every call of Ping, Register, Deregister or Refresh makes one sync
\* attempt on the bound client and then, whether or not the sync succeeded,
\* one store call; what it returns is the store call's outcome.
C5_SyncGuard ==
    \A g \in Goroutines :
       LET f == frames[g] IN
       /\ f.pc = "sync" => Kinds(f) = <<>>
       /\ f.pc = "store" => Kinds(f) = <<"sync">>
       /\ (f.pc = "done" /\ f.op \in StoreOps) =>
             /\ Kinds(f) = <<"sync", "store">>
             /\ \A i \in 1..2 : f.trace[i].via = Dispatch(adapter)
             /\ f.sent # NoRequest
             /\ f.ret = f.err

C5_Witness ==
    \E g \in Goroutines :
       /\ Done(g) /\ frames[g].op = "Register"
       /\ frames[g].logs = <<SyncWarning>>
       /\ frames[g].ret = NIL
       /\ frames[g].sent.key \in DOMAIN store

\* C6: a finished Refresh made the sync attempt and the write Register
\* makes for the record (same key, value and TTL), returned and logged what
\* Register does, and after a successful Register or Refresh the stored
\* entry is the one the record determines, however often it is repeated.
C6_RefreshIsRegister ==
    \A g \in Goroutines :
       LET f == frames[g]
           req == RegisterRequest(adapter, f.svc)
       IN
       /\ (Done(g) /\ f.op = "Refresh") =>
             /\ Kinds(f) = <<"sync", "store">>
             /\ f.sent = req
             /\ f.ret = f.err
             /\ \/ f.logs = RegisterLog(f.err)
                \/ f.logs = <<SyncWarning>> \o RegisterLog(f.err)
       /\ (Done(g) /\ f.op \in {"Register", "Refresh"} /\ f.err = NIL
             /\ Cardinality(Goroutines) = 1) =>
             /\ req.key \in DOMAIN store
             /\ store[req.key] = [value |-> req.value, ttl |-> req.ttl]

C6_Witness ==
    \E g \in Goroutines :
       /\ Done(g) /\ frames[g].op = "Refresh" /\ frames[g].err = NIL
       /\ frames[g].sent.call = "Set"
       /\ frames[g].sent.key \in DOMAIN store

\* C7 as stated: under either binding Register writes the key
\* prefix/name/id with the value ip:port and a TTL of record.TTL seconds,
\* and Deregister deletes that key non-recursively.
C7_CrossProtocolEquivalence ==
    \A g \in Goroutines :
       LET f == frames[g]
           key == adapter.path \o <<"/">> \o f.svc.Name \o <<"/">> \o f.svc.ID
       IN
       /\ (Done(g) /\ f.fn = "Register") =>
             /\ f.sent.call = "Set"
             /\ f.sent.key = key
             /\ f.sent.value = f.svc.IP \o <<":">> \o Itoa(f.svc.Port)
             /\ f.sent.ttl = ExactSeconds(f.svc.TTL)
       /\ (Done(g) /\ f.fn = "Deregister") =>
             /\ f.sent.call = "Delete"
             /\ f.sent.key = key
             /\ ~f.sent.recursive

\* C7 amended: the value is ip:port with an ip holding a colon bracketed,
\* the same under both bindings, and the TTL is record.TTL seconds under
\* both bindings when record.TTL >= 0.
C7_CrossProtocolEquivalenceNonNegTTL ==
    \A g \in Goroutines :
       LET f == frames[g]
           key == adapter.path \o <<"/">> \o f.svc.Name \o <<"/">> \o f.svc.ID
           addr == IF HasChar(f.svc.IP, ":")
                   THEN <<"[">> \o f.svc.IP \o <<"]", ":">> \o Itoa(f.svc.Port)
                   ELSE f.svc.IP \o <<":">> \o Itoa(f.svc.Port)
       IN
       /\ (Done(g) /\ f.fn = "Register") =>
             /\ f.sent.call = "Set"
             /\ f.sent.key = key
             /\ f.sent.value = addr
             /\ f.svc.TTL >= 0 => f.sent.ttl = ExactSeconds(f.svc.TTL)
       /\ (Done(g) /\ f.fn = "Deregister") =>
             /\ f.sent.call = "Delete"
             /\ f.sent.key = key
             /\ ~f.sent.recursive

C7_Witness ==
    \E g \in Goroutines :
       /\ Done(g) /\ frames[g].fn = "Register" /\ frames[g].err = NIL
       /\ frames[g].sent.via = "current"
       /\ frames[g].svc.TTL = 30
       /\ frames[g].sent.value = <<"1", "0", ".", "5", ":", "8", "0", "8", "0">>
       /\ store[frames[g].sent.key].ttl = ExactSeconds(30)

\* C8 as stated: Ping syncs, then reads the store root under either
\* binding, and returns nil exactly when the read succeeds.
C8_PingReadsRoot ==
    \A g \in Goroutines :
       (Done(g) /\ frames[g].op = "Ping") =>
          /\ Kinds(frames[g]) = <<"sync", "store">>
          /\ frames[g].sent.key = KeysRoot
          /\ (frames[g].ret = NIL) <=> (frames[g].err = NIL)

\* C8 amended: Ping syncs, then makes one read, of the keys root "/" under
\* the Current binding and of the version endpoint under the Legacy
\* binding, and returns nil exactly when the read succeeds.
C8_PingReadsRootOrVersion ==
    \A g \in Goroutines :
       (Done(g) /\ frames[g].op = "Ping") =>
          /\ Kinds(frames[g]) = <<"sync", "store">>
          /\ adapter.client # NIL =>
                /\ frames[g].sent.call = "SendRequest GET"
                /\ frames[g].sent.key = VersionPath
          /\ adapter.client = NIL =>
                /\ frames[g].sent.call = "KeysAPI.Get"
                /\ frames[g].sent.key = KeysRoot
          /\ (frames[g].ret = NIL) <=> (frames[g].err = NIL)

C8_Witness ==
    \E g \in Goroutines :
       /\ Done(g) /\ frames[g].op = "Ping"
       /\ adapter.client # NIL
       /\ frames[g].err # NIL /\ frames[g].ret = frames[g].err

\* C9: New builds the transport first: with an unreadable CA bundle or a
\* certificate and key pair that does not load it ends fatally with no
\* probe issued and no adapter; a failed probe is fatal; an adapter exists
\* only after the one probe New issues has completed.
C9_ConstructionOrdering ==
    /\ Len(probes) <= 1
    /\ BadTLSMaterial(flags) =>
          /\ probes = <<>>
          /\ adapter = NoAdapter
          /\ fpc \in {"start", "fatal"}
    /\ probes # <<>> => transport.configured
    /\ fpc = "fatal" => adapter = NoAdapter
    /\ adapter # NoAdapter =>
          /\ fpc = "returned"
          /\ Len(probes) = 1
          /\ probes[1].path = "/version"
          /\ body = versionBody

C9_Witness ==
    /\ fpc = "fatal"
    /\ flags.caFile = MissingFile
    /\ flog = <<"etcd: error creating transport">>
    /\ probes = <<>>

\* C10: Services returns an empty list and a nil error whatever the binding
\* and the store hold, and makes no sync attempt and no store call.
C10_ServicesEmpty ==
    \A g \in Goroutines :
       (Done(g) /\ frames[g].op = "Services") =>
          /\ frames[g].list = <<>>
          /\ frames[g].ret = NIL
          /\ frames[g].trace = <<>>
          /\ frames[g].sent = NoRequest
          /\ frames[g].logs = <<>>

C10_Witness ==
    \E g \in Goroutines :
       /\ Done(g) /\ frames[g].op = "Services"
       /\ DOMAIN store # {}

====
